---- MODULE Spec2Model ----
(***************************************************************************)
(* Model of the route-graph shortest-path engine of the fleet dashboard:   *)
(* class DijkstraRouter of src/src/services/dijkstra.ts (the road network  *)
(* graph, findShortestPath, buildRouteResult, findMultipleRoutes and       *)
(* addDynamicNode / connectToNearestNodes).                                *)
(*                                                                         *)
(* Numbers.  The program computes in IEEE doubles; the model computes in   *)
(* fixed point.  A distance is held in units of 1/DistScale km, a time in  *)
(* units of 1/TimeScale minute, a cost in units of 1/CostScale rupee and a *)
(* traffic factor in units of 1/TfScale.  TimeScale = 60 * DistScale, so   *)
(* that the program's  distance / 60  is exact in the model.  A latitude   *)
(* or longitude is held in units of 1/10000 degree.                        *)
(***************************************************************************)
EXTENDS Integers, Sequences, FiniteSets, TLC

VARIABLES
  nodes,    \* DijkstraRouter.nodes: the Map's entries, in insertion order
  edges,    \* DijkstraRouter.edges: key -> list of outgoing GraphEdge
  pc,       \* position of the caller: "idle", or "returned" from a call
  call,     \* the call that returned last: [op, startId, endId, mode, node]
  route,    \* what findShortestPath returned (NullRoute for null)
  routes,   \* what findMultipleRoutes returned
  adds,     \* number of calls made so far that changed the graph
  search,   \* the locals of a findShortestPath that is in its main loop
  ws        \* the WebSocketService singleton, its sockets and its timers

vars == <<nodes, edges, pc, call, route, routes, adds, search, ws>>

----------------------------------------------------------------------------
(* Fixed-point scales and the bounds of the model *)

DistScale == 10
TimeScale == 600
CostScale == 10
TfScale == 10

\* the value standing for the double Infinity: above every finite path weight
Infinity == 2000000000

\* how many addDynamicNode calls a behaviour makes
MaxAdds == 2

\* how many addEdge calls a behaviour of MalformedSpec makes
MaxEdgeAdds == 2

\* how many sockets a behaviour of WebSocketSpec creates
MaxSockets == 3

\* how many reconnect timers are pending at once in WebSocketSpec
MaxTimers == 3

----------------------------------------------------------------------------
(* The seed network *)

SeedEdge(f, t, d, ti, c, r, tc, tf) ==
  [from |-> f, to |-> t, distance |-> d * DistScale, time |-> ti * TimeScale,
   cost |-> c * CostScale, roadType |-> r, tollCost |-> tc * CostScale,
   trafficFactor |-> tf]

indianNodes ==
  << [id |-> "mumbai", lat |-> 190760, lng |-> 728777, type |-> "city"],
     [id |-> "delhi", lat |-> 286139, lng |-> 772090, type |-> "city"],
     [id |-> "bangalore", lat |-> 129716, lng |-> 775946, type |-> "city"],
     [id |-> "chennai", lat |-> 130827, lng |-> 802707, type |-> "city"],
     [id |-> "kolkata", lat |-> 225726, lng |-> 883639, type |-> "city"],
     [id |-> "pune", lat |-> 185204, lng |-> 738567, type |-> "city"],
     [id |-> "hyderabad", lat |-> 173850, lng |-> 784867, type |-> "city"],
     [id |-> "ahmedabad", lat |-> 230225, lng |-> 725714, type |-> "city"],
     [id |-> "jaipur", lat |-> 269124, lng |-> 757873, type |-> "city"],
     [id |-> "surat", lat |-> 211702, lng |-> 728311, type |-> "city"],
     [id |-> "panvel_junction", lat |-> 189894, lng |-> 731103, type |-> "junction"],
     [id |-> "vadodara_junction", lat |-> 223072, lng |-> 731812, type |-> "junction"],
     [id |-> "indore_junction", lat |-> 227196, lng |-> 758577, type |-> "junction"],
     [id |-> "nagpur_junction", lat |-> 211458, lng |-> 790882, type |-> "junction"],
     [id |-> "khalapur_toll", lat |-> 188642, lng |-> 733467, type |-> "toll"],
     [id |-> "khed_toll", lat |-> 187197, lng |-> 734000, type |-> "toll"],
     [id |-> "lonavala_fuel", lat |-> 187537, lng |-> 734068, type |-> "fuel"],
     [id |-> "nashik_fuel", lat |-> 199975, lng |-> 737898, type |-> "fuel"] >>

\* indianEdges with a direct Mumbai-Pune road, longer than the corridor and
\* faster: a cycle in the seed network
indianEdgesWithBypass ==
  << SeedEdge("mumbai", "panvel_junction", 42, 45, 50, "expressway", 0, 12),
     SeedEdge("panvel_junction", "khalapur_toll", 28, 25, 30, "expressway", 85, 10),
     SeedEdge("khalapur_toll", "lonavala_fuel", 35, 30, 40, "expressway", 0, 10),
     SeedEdge("lonavala_fuel", "pune", 25, 25, 30, "expressway", 65, 11),
     SeedEdge("mumbai", "surat", 284, 300, 350, "national_highway", 150, 13),
     SeedEdge("surat", "vadodara_junction", 125, 120, 150, "national_highway", 80, 11),
     SeedEdge("vadodara_junction", "ahmedabad", 110, 105, 130, "national_highway", 70, 12),
     SeedEdge("delhi", "jaipur", 280, 300, 350, "national_highway", 120, 14),
     SeedEdge("jaipur", "ahmedabad", 680, 720, 850, "national_highway", 280, 12),
     SeedEdge("bangalore", "chennai", 346, 360, 420, "national_highway", 180, 13),
     SeedEdge("bangalore", "hyderabad", 569, 600, 700, "national_highway", 250, 12),
     SeedEdge("delhi", "nagpur_junction", 1050, 1200, 1300, "national_highway", 450, 13),
     SeedEdge("nagpur_junction", "kolkata", 520, 600, 650, "national_highway", 220, 12),
     SeedEdge("mumbai", "pune", 150, 120, 400, "national_highway", 0, 10) >>

indianEdges ==
  << SeedEdge("mumbai", "panvel_junction", 42, 45, 50, "expressway", 0, 12),
     SeedEdge("panvel_junction", "khalapur_toll", 28, 25, 30, "expressway", 85, 10),
     SeedEdge("khalapur_toll", "lonavala_fuel", 35, 30, 40, "expressway", 0, 10),
     SeedEdge("lonavala_fuel", "pune", 25, 25, 30, "expressway", 65, 11),
     SeedEdge("mumbai", "surat", 284, 300, 350, "national_highway", 150, 13),
     SeedEdge("surat", "vadodara_junction", 125, 120, 150, "national_highway", 80, 11),
     SeedEdge("vadodara_junction", "ahmedabad", 110, 105, 130, "national_highway", 70, 12),
     SeedEdge("delhi", "jaipur", 280, 300, 350, "national_highway", 120, 14),
     SeedEdge("jaipur", "ahmedabad", 680, 720, 850, "national_highway", 280, 12),
     SeedEdge("bangalore", "chennai", 346, 360, 420, "national_highway", 180, 13),
     SeedEdge("bangalore", "hyderabad", 569, 600, 700, "national_highway", 250, 12),
     SeedEdge("delhi", "nagpur_junction", 1050, 1200, 1300, "national_highway", 450, 13),
     SeedEdge("nagpur_junction", "kolkata", 520, 600, 650, "national_highway", 220, 12) >>

\* value of a string | null slot that holds null
Null == "null"

----------------------------------------------------------------------------
(* Map<string, GraphNode> and Map<string, GraphEdge[]> *)

NodeKeys(ns) == [i \in 1..Len(ns) |-> ns[i].id]

NodeIds(ns) == {ns[i].id : i \in 1..Len(ns)}

NodesHas(ns, id) == id \in NodeIds(ns)

NodesGet(ns, id) == ns[CHOOSE i \in 1..Len(ns) : ns[i].id = id]

\* a Map.set that leaves the value of an existing key as it is
NodesSetKeepExisting(ns, node) ==
  IF NodesHas(ns, node.id) THEN ns ELSE Append(ns, node)

\* Map.set: a new key goes last, an existing key keeps its place
NodesSet(ns, node) ==
  IF NodesHas(ns, node.id)
    THEN [i \in 1..Len(ns) |-> IF ns[i].id = node.id THEN node ELSE ns[i]]
    ELSE Append(ns, node)

EdgesSet(es, id, list) ==
  [k \in DOMAIN es \cup {id} |-> IF k = id THEN list ELSE es[k]]

\* this.edges.get(id) || []
EdgesGet(es, id) == IF id \in DOMAIN es THEN es[id] ELSE <<>>

\* an addEdge that puts the edge in the place of a stored edge with the
\* same to
addEdgeReplacing(es, edge) ==
  IF edge.from \in DOMAIN es
    THEN IF \E i \in 1..Len(es[edge.from]) : es[edge.from][i].to = edge.to
           THEN [es EXCEPT ![edge.from] =
                   [i \in 1..Len(@) |-> IF @[i].to = edge.to THEN edge ELSE @[i]]]
           ELSE [es EXCEPT ![edge.from] = Append(@, edge)]
    ELSE EdgesSet(es, edge.from, <<edge>>)

addEdge(es, edge) ==
  IF edge.from \in DOMAIN es
    THEN [es EXCEPT ![edge.from] = Append(@, edge)]
    ELSE EdgesSet(es, edge.from, <<edge>>)

ReverseEdge(edge) == [edge EXCEPT !.from = edge.to, !.to = edge.from]

RECURSIVE RegisterNodes(_, _, _)
RegisterNodes(g, list, i) ==
  IF i > Len(list) THEN g
  ELSE RegisterNodes([nodes |-> NodesSet(g.nodes, list[i]),
                      edges |-> EdgesSet(g.edges, list[i].id, <<>>)],
                     list, i + 1)

RECURSIVE AddBidirectional(_, _, _)
AddBidirectional(es, list, i) ==
  IF i > Len(list) THEN es
  ELSE AddBidirectional(addEdge(addEdge(es, list[i]), ReverseEdge(list[i])),
                        list, i + 1)

initializeIndianRoadNetwork ==
  LET g == RegisterNodes([nodes |-> <<>>, edges |-> <<>>], indianNodes, 1)
  IN  [nodes |-> g.nodes, edges |-> AddBidirectional(g.edges, indianEdges, 1)]

----------------------------------------------------------------------------
(* findShortestPath *)

Modes == {"distance", "time", "cost"}

Weight(edge, optimizeFor) ==
  CASE optimizeFor = "time" -> (edge.time * edge.trafficFactor) \div TfScale
    [] optimizeFor = "cost" -> edge.cost + edge.tollCost
    [] OTHER -> edge.distance

\* MinScan with "distance < Infinity" in place of "distance < minDistance":
\* the first unvisited node of finite distance
RECURSIVE MinScanFirstFinite(_, _, _, _)
MinScanFirstFinite(unvisited, distances, i, best) ==
  IF i > Len(unvisited) THEN best
  ELSE IF best.node = Null /\ distances[unvisited[i]] < Infinity
    THEN MinScanFirstFinite(unvisited, distances, i + 1,
                 [node |-> unvisited[i], min |-> distances[unvisited[i]]])
    ELSE MinScanFirstFinite(unvisited, distances, i + 1, best)

\* MinScan with "distance <= minDistance": the last of the nearest nodes
RECURSIVE MinScanLastMin(_, _, _, _)
MinScanLastMin(unvisited, distances, i, best) ==
  IF i > Len(unvisited) THEN best
  ELSE LET nodeId == unvisited[i]
           distance == distances[nodeId]
       IN  IF distance <= best.min /\ distance < Infinity
             THEN MinScanLastMin(unvisited, distances, i + 1,
                                 [node |-> nodeId, min |-> distance])
             ELSE MinScanLastMin(unvisited, distances, i + 1, best)

\* the scan for the unvisited node of minimum distance: [node, min]
RECURSIVE MinScan(_, _, _, _)
MinScan(unvisited, distances, i, best) ==
  IF i > Len(unvisited) THEN best
  ELSE IF distances[unvisited[i]] < best.min
    THEN MinScan(unvisited, distances, i + 1,
                 [node |-> unvisited[i], min |-> distances[unvisited[i]]])
    ELSE MinScan(unvisited, distances, i + 1, best)

\* Relax with "break" in place of "continue" at a visited target
RECURSIVE RelaxBreakAtVisited(_, _, _, _, _)
RelaxBreakAtVisited(st, list, i, currentNode, optimizeFor) ==
  IF i > Len(list) THEN st
  ELSE LET edge == list[i]
           newDistance == st.distances[currentNode] + Weight(edge, optimizeFor)
       IN  IF edge.to \in st.visited THEN st
           ELSE IF edge.to \in DOMAIN st.distances
                   /\ newDistance < st.distances[edge.to]
             THEN RelaxBreakAtVisited(
                        [st EXCEPT !.distances[edge.to] = newDistance,
                                   !.previous[edge.to] = currentNode],
                        list, i + 1, currentNode, optimizeFor)
             ELSE RelaxBreakAtVisited(st, list, i + 1, currentNode, optimizeFor)

\* Relax giving up the rest of the list at an edge whose to has no distance
RECURSIVE RelaxStopAtUnknown(_, _, _, _, _)
RelaxStopAtUnknown(st, list, i, currentNode, optimizeFor) ==
  IF i > Len(list) THEN st
  ELSE LET edge == list[i]
           newDistance == st.distances[currentNode] + Weight(edge, optimizeFor)
       IN  IF edge.to \in st.visited
             THEN RelaxStopAtUnknown(st, list, i + 1, currentNode, optimizeFor)
           ELSE IF edge.to \notin DOMAIN st.distances
             THEN st
           ELSE IF newDistance < st.distances[edge.to]
             THEN RelaxStopAtUnknown(
                    [st EXCEPT !.distances[edge.to] = newDistance,
                               !.previous[edge.to] = currentNode],
                    list, i + 1, currentNode, optimizeFor)
             ELSE RelaxStopAtUnknown(st, list, i + 1, currentNode, optimizeFor)

\* Relax without the visited test and with "<=" for "<"
RECURSIVE RelaxRevisiting(_, _, _, _, _)
RelaxRevisiting(st, list, i, currentNode, optimizeFor) ==
  IF i > Len(list) THEN st
  ELSE LET edge == list[i]
           newDistance == st.distances[currentNode] + Weight(edge, optimizeFor)
       IN  IF edge.to \in DOMAIN st.distances
                /\ newDistance <= st.distances[edge.to]
             THEN RelaxRevisiting(
                    [st EXCEPT !.distances[edge.to] = newDistance,
                               !.previous[edge.to] = currentNode],
                    list, i + 1, currentNode, optimizeFor)
             ELSE RelaxRevisiting(st, list, i + 1, currentNode, optimizeFor)

\* the loop over the current node's edges
RECURSIVE Relax(_, _, _, _, _)
Relax(st, list, i, currentNode, optimizeFor) ==
  IF i > Len(list) THEN st
  ELSE LET edge == list[i]
           newDistance == st.distances[currentNode] + Weight(edge, optimizeFor)
       IN  IF edge.to \in st.visited
             THEN Relax(st, list, i + 1, currentNode, optimizeFor)
           \* distances.get of a missing key is undefined: the test is false
           ELSE IF edge.to \in DOMAIN st.distances
                   /\ newDistance < st.distances[edge.to]
             THEN Relax([st EXCEPT !.distances[edge.to] = newDistance,
                                   !.previous[edge.to] = currentNode],
                        list, i + 1, currentNode, optimizeFor)
             ELSE Relax(st, list, i + 1, currentNode, optimizeFor)

RemoveFirst(seq, x) ==
  LET k == CHOOSE i \in 1..Len(seq) : seq[i] = x
  IN  [i \in 1..(Len(seq) - 1) |-> IF i < k THEN seq[i] ELSE seq[i + 1]]

\* SearchIteration without the break at endId
SearchIterationNoEarlyExit(st, es, endId, optimizeFor) ==
  LET best == MinScan(st.unvisited, st.distances, 1,
                      [node |-> Null, min |-> Infinity])
      currentNode == best.node
  IN  IF currentNode = Null \/ best.min = Infinity
        THEN [st |-> st, break |-> TRUE]
        ELSE LET st1 == [st EXCEPT
                           !.unvisited = RemoveFirst(@, currentNode),
                           !.visited = @ \cup {currentNode},
                           !.order = Append(@, currentNode)]
             IN  [st |-> Relax(st1, EdgesGet(es, currentNode), 1,
                               currentNode, optimizeFor),
                  break |-> FALSE]

\* one pass through the body of the main loop, entered with unvisited not
\* empty: the state it leaves, and whether it left the loop by a break
SearchIteration(st, es, endId, optimizeFor) ==
  LET best == MinScan(st.unvisited, st.distances, 1,
                      [node |-> Null, min |-> Infinity])
      currentNode == best.node
  IN  IF currentNode = Null \/ best.min = Infinity
        THEN [st |-> st, break |-> TRUE]
        ELSE LET st1 == [st EXCEPT
                           !.unvisited = RemoveFirst(@, currentNode),
                           !.visited = @ \cup {currentNode},
                           !.order = Append(@, currentNode)]
             IN  IF currentNode = endId
                   THEN [st |-> st1, break |-> TRUE]
                   ELSE [st |-> Relax(st1, EdgesGet(es, currentNode), 1,
                                      currentNode, optimizeFor),
                         break |-> FALSE]

RECURSIVE SearchLoop(_, _, _, _)
SearchLoop(st, es, endId, optimizeFor) ==
  IF Len(st.unvisited) = 0 THEN st
  ELSE LET it == SearchIteration(st, es, endId, optimizeFor)
       IN  IF it.break THEN it.st
           ELSE SearchLoop(it.st, es, endId, optimizeFor)

\* the state of the search when the main loop is entered
SearchInit(ns, startId) ==
  [distances |-> [id \in NodeIds(ns) |->
                    IF id = startId THEN 0 ELSE Infinity],
   previous  |-> [id \in NodeIds(ns) |-> Null],
   visited   |-> {},
   order     |-> <<>>,
   unvisited |-> NodeKeys(ns)]

\* the state of the search when the main loop ends
Search(ns, es, startId, endId, optimizeFor) ==
  SearchLoop(SearchInit(ns, startId), es, endId, optimizeFor)

RECURSIVE ReconstructPath(_, _, _)
ReconstructPath(previous, current, path) ==
  IF current = Null THEN path
  ELSE ReconstructPath(previous, previous[current], <<current>> \o path)

\* Math.round of a non-negative fixed-point number with `scale` units per 1
Round(x, scale) == ((2 * x + scale) \div (2 * scale)) * scale

NullRoute ==
  [found |-> FALSE, path |-> <<>>, totalDistance |-> 0, totalTime |-> 0,
   totalCost |-> 0, coordinates |-> <<>>, segments |-> <<>>]

\* edges.find(e => e.to === toId): the index of the first such edge, or 0
FindEdge(list, toId) ==
  IF \E i \in 1..Len(list) : list[i].to = toId
    THEN CHOOSE i \in 1..Len(list) :
           list[i].to = toId /\ \A j \in 1..(i - 1) : list[j].to # toId
    ELSE 0

Coordinate(node) == [lat |-> node.lat, lng |-> node.lng]

\* BuildLoop leaving the toll out of the cost total
RECURSIVE BuildLoopNoToll(_, _, _, _, _)
BuildLoopNoToll(ns, es, path, i, acc) ==
  IF i > Len(path) - 1 THEN acc
  ELSE LET fromId == path[i]
           toId == path[i + 1]
           fromNode == NodesGet(ns, fromId)
           list == EdgesGet(es, fromId)
           k == FindEdge(list, toId)
           acc1 == [acc EXCEPT !.coordinates = Append(@, Coordinate(fromNode))]
       IN  IF k = 0 THEN BuildLoopNoToll(ns, es, path, i + 1, acc1)
           ELSE LET edge == list[k]
                    effTime == (edge.time * edge.trafficFactor) \div TfScale
                IN  BuildLoopNoToll(ns, es, path, i + 1,
                      [acc1 EXCEPT
                         !.totalDistance = @ + edge.distance,
                         !.totalTime = @ + effTime,
                         !.totalCost = @ + edge.cost,
                         !.segments = Append(@,
                            [from |-> fromId, to |-> toId,
                             distance |-> edge.distance, time |-> effTime,
                             roadType |-> edge.roadType])])

RECURSIVE BuildLoop(_, _, _, _, _)
BuildLoop(ns, es, path, i, acc) ==
  IF i > Len(path) - 1 THEN acc
  ELSE LET fromId == path[i]
           toId == path[i + 1]
           fromNode == NodesGet(ns, fromId)
           list == EdgesGet(es, fromId)
           k == FindEdge(list, toId)
           acc1 == [acc EXCEPT !.coordinates = Append(@, Coordinate(fromNode))]
       IN  IF k = 0 THEN BuildLoop(ns, es, path, i + 1, acc1)
           ELSE LET edge == list[k]
                    effTime == (edge.time * edge.trafficFactor) \div TfScale
                IN  BuildLoop(ns, es, path, i + 1,
                      [acc1 EXCEPT
                         !.totalDistance = @ + edge.distance,
                         !.totalTime = @ + effTime,
                         !.totalCost = @ + edge.cost + edge.tollCost,
                         !.segments = Append(@,
                            [from |-> fromId, to |-> toId,
                             distance |-> edge.distance, time |-> effTime,
                             roadType |-> edge.roadType])])

\* buildRouteResult without "Add final coordinate"
buildRouteResultNoFinal(ns, es, path) ==
  LET acc == BuildLoop(ns, es, path, 1,
                       [totalDistance |-> 0, totalTime |-> 0, totalCost |-> 0,
                        coordinates |-> <<>>, segments |-> <<>>])
  IN  [found |-> TRUE,
       path |-> path,
       totalDistance |-> Round(acc.totalDistance, DistScale),
       totalTime |-> Round(acc.totalTime, TimeScale),
       totalCost |-> Round(acc.totalCost, CostScale),
       coordinates |-> acc.coordinates,
       segments |-> acc.segments]

buildRouteResult(ns, es, path) ==
  LET acc == BuildLoop(ns, es, path, 1,
                       [totalDistance |-> 0, totalTime |-> 0, totalCost |-> 0,
                        coordinates |-> <<>>, segments |-> <<>>])
  IN  [found |-> TRUE,
       path |-> path,
       totalDistance |-> Round(acc.totalDistance, DistScale),
       totalTime |-> Round(acc.totalTime, TimeScale),
       totalCost |-> Round(acc.totalCost, CostScale),
       coordinates |->
         IF Len(path) > 0
           THEN Append(acc.coordinates,
                       Coordinate(NodesGet(ns, path[Len(path)])))
           ELSE acc.coordinates,
       segments |-> acc.segments]

\* findShortestPath that refuses startId = endId, as its caller does
findShortestPathRejectSame(ns, es, startId, endId, optimizeFor) ==
  IF ~NodesHas(ns, startId) \/ ~NodesHas(ns, endId) \/ startId = endId
    THEN NullRoute
  ELSE LET st == Search(ns, es, startId, endId, optimizeFor)
           path == ReconstructPath(st.previous, endId, <<>>)
       IN  IF path[1] # startId THEN NullRoute
           ELSE buildRouteResult(ns, es, path)

\* the end of findShortestPath, from the state st the main loop left
PathResult(ns, es, st, startId, endId) ==
  LET path == ReconstructPath(st.previous, endId, <<>>)
  IN  IF path[1] # startId THEN NullRoute
      ELSE buildRouteResult(ns, es, path)

findShortestPath(ns, es, startId, endId, optimizeFor) ==
  IF ~NodesHas(ns, startId) \/ ~NodesHas(ns, endId) THEN NullRoute
  ELSE PathResult(ns, es, Search(ns, es, startId, endId, optimizeFor),
                  startId, endId)

----------------------------------------------------------------------------
(* findMultipleRoutes *)

\* routesEqual comparing the path arrays by reference: never equal
routesEqualByReference(route1, route2) == FALSE

\* JSON.stringify of two string arrays agrees exactly when the arrays do
routesEqual(route1, route2) ==
  IF ~route1.found \/ ~route2.found THEN FALSE
  ELSE route1.path = route2.path

\* findMultipleRoutes without the null check on the distance candidate
findMultipleRoutesNoNullCheck(ns, es, startId, endId) ==
  LET shortestRoute == findShortestPath(ns, es, startId, endId, "distance")
      routes1 == <<shortestRoute>>
      fastestRoute == findShortestPath(ns, es, startId, endId, "time")
      routes2 == IF fastestRoute.found
                    /\ ~routesEqual(shortestRoute, fastestRoute)
                   THEN Append(routes1, fastestRoute) ELSE routes1
      economicalRoute == findShortestPath(ns, es, startId, endId, "cost")
  IN  IF economicalRoute.found
         /\ ~\E i \in 1..Len(routes2) : routesEqual(routes2[i], economicalRoute)
        THEN Append(routes2, economicalRoute) ELSE routes2

\* findMultipleRoutes computing the time candidate first
findMultipleRoutesFastestFirst(ns, es, startId, endId) ==
  LET fastestRoute == findShortestPath(ns, es, startId, endId, "time")
      routes1 == IF fastestRoute.found THEN <<fastestRoute>> ELSE <<>>
      shortestRoute == findShortestPath(ns, es, startId, endId, "distance")
      routes2 == IF shortestRoute.found
                    /\ ~routesEqual(fastestRoute, shortestRoute)
                   THEN Append(routes1, shortestRoute) ELSE routes1
      economicalRoute == findShortestPath(ns, es, startId, endId, "cost")
  IN  IF economicalRoute.found
         /\ ~\E i \in 1..Len(routes2) : routesEqual(routes2[i], economicalRoute)
        THEN Append(routes2, economicalRoute) ELSE routes2

findMultipleRoutes(ns, es, startId, endId) ==
  LET shortestRoute == findShortestPath(ns, es, startId, endId, "distance")
      routes1 == IF shortestRoute.found THEN <<shortestRoute>> ELSE <<>>
      fastestRoute == findShortestPath(ns, es, startId, endId, "time")
      routes2 == IF fastestRoute.found
                    /\ ~routesEqual(shortestRoute, fastestRoute)
                   THEN Append(routes1, fastestRoute) ELSE routes1
      economicalRoute == findShortestPath(ns, es, startId, endId, "cost")
  IN  IF economicalRoute.found
         /\ ~\E i \in 1..Len(routes2) : routesEqual(routes2[i], economicalRoute)
        THEN Append(routes2, economicalRoute) ELSE routes2

----------------------------------------------------------------------------
(* addDynamicNode *)

HaversineTable ==
  { <<190300, 730500, 190760, 728777, 188>>,
    <<190300, 730500, 286139, 772090, 11463>>,
    <<190300, 730500, 129716, 775946, 8304>>,
    <<190300, 730500, 130827, 802707, 10158>>,
    <<190300, 730500, 225726, 883639, 16389>>,
    <<190300, 730500, 185204, 738567, 1021>>,
    <<190300, 730500, 173850, 784867, 6026>>,
    <<190300, 730500, 230225, 725714, 4467>>,
    <<190300, 730500, 269124, 757873, 9201>>,
    <<190300, 730500, 211702, 728311, 2391>>,
    <<190300, 730500, 189894, 731103, 78>>,
    <<190300, 730500, 223072, 731812, 3647>>,
    <<190300, 730500, 227196, 758577, 5034>>,
    <<190300, 730500, 211458, 790882, 6730>>,
    <<190300, 730500, 188642, 733467, 362>>,
    <<190300, 730500, 187197, 734000, 505>>,
    <<190300, 730500, 187537, 734068, 485>>,
    <<190300, 730500, 199975, 737898, 1326>>,
    <<190300, 730500, 190300, 730500, 0>>,
    <<190300, 730500, 208737, 740058, 2281>>,
    <<190300, 730500, 189000, 733000, 300>>,
    <<188642, 733467, 190760, 728777, 547>>,
    <<188642, 733467, 286139, 772090, 11529>>,
    <<188642, 733467, 129716, 775946, 7971>>,
    <<188642, 733467, 130827, 802707, 9801>>,
    <<188642, 733467, 225726, 883639, 16144>>,
    <<188642, 733467, 185204, 738567, 659>>,
    <<188642, 733467, 173850, 784867, 5675>>,
    <<188642, 733467, 230225, 725714, 4693>>,
    <<188642, 733467, 269124, 757873, 9291>>,
    <<188642, 733467, 211702, 728311, 2620>>,
    <<188642, 733467, 189894, 731103, 285>>,
    <<188642, 733467, 223072, 731812, 3832>>,
    <<188642, 733467, 227196, 758577, 5019>>,
    <<188642, 733467, 211458, 790882, 6513>>,
    <<188642, 733467, 188642, 733467, 0>>,
    <<188642, 733467, 187197, 734000, 170>>,
    <<188642, 733467, 187537, 734068, 138>>,
    <<188642, 733467, 199975, 737898, 1343>>,
    <<188642, 733467, 190300, 730500, 362>>,
    <<188642, 733467, 208737, 740058, 2338>>,
    <<188642, 733467, 189000, 733000, 63>>,
    <<208737, 740058, 190760, 728777, 2321>>,
    <<208737, 740058, 286139, 772090, 9193>>,
    <<208737, 740058, 129716, 775946, 9579>>,
    <<208737, 740058, 130827, 802707, 10925>>,
    <<208737, 740058, 225726, 883639, 14945>>,
    <<208737, 740058, 185204, 738567, 2621>>,
    <<208737, 740058, 173850, 784867, 6099>>,
    <<208737, 740058, 230225, 725714, 2810>>,
    <<208737, 740058, 269124, 757873, 6954>>,
    <<208737, 740058, 211702, 728311, 1263>>,
    <<208737, 740058, 189894, 731103, 2295>>,
    <<208737, 740058, 223072, 731812, 1808>>,
    <<208737, 740058, 227196, 758577, 2805>>,
    <<208737, 740058, 211458, 790882, 5284>>,
    <<208737, 740058, 188642, 733467, 2338>>,
    <<208737, 740058, 187197, 734000, 2478>>,
    <<208737, 740058, 187537, 734068, 2439>>,
    <<208737, 740058, 199975, 737898, 1000>>,
    <<208737, 740058, 190300, 730500, 2281>>,
    <<208737, 740058, 208737, 740058, 0>>,
    <<208737, 740058, 189000, 733000, 2315>>,
    <<189000, 733000, 190760, 728777, 485>>,
    <<189000, 733000, 286139, 772090, 11508>>,
    <<189000, 733000, 129716, 775946, 8032>>,
    <<189000, 733000, 130827, 802707, 9864>>,
    <<189000, 733000, 225726, 883639, 16180>>,
    <<189000, 733000, 185204, 738567, 722>>,
    <<189000, 733000, 173850, 784867, 5733>>,
    <<189000, 733000, 230225, 725714, 4646>>,
    <<189000, 733000, 269124, 757873, 9266>>,
    <<189000, 733000, 211702, 728311, 2571>>,
    <<189000, 733000, 189894, 731103, 223>>,
    <<189000, 733000, 223072, 731812, 3791>>,
    <<189000, 733000, 227196, 758577, 5010>>,
    <<189000, 733000, 211458, 790882, 6542>>,
    <<189000, 733000, 188642, 733467, 63>>,
    <<189000, 733000, 187197, 734000, 226>>,
    <<189000, 733000, 187537, 734068, 198>>,
    <<189000, 733000, 199975, 737898, 1324>>,
    <<189000, 733000, 190300, 730500, 300>>,
    <<189000, 733000, 208737, 740058, 2315>>,
    <<189000, 733000, 189000, 733000, 0>> }

\* calculateHaversineDistance, in units of 1/DistScale km: the table holds
\* the program's formula evaluated in doubles on the positions the model
\* uses (a new node's position against every position), rounded to the unit
calculateHaversineDistance(lat1, lng1, lat2, lng2) ==
  LET row == CHOOSE r \in HaversineTable :
               r[1] = lat1 /\ r[2] = lng1 /\ r[3] = lat2 /\ r[4] = lng2
  IN  row[5]

\* "distance < 100": the radius in km
NearbyRadiusKm == 100
\* "slice(0, 3)"
NearestCount == 3
\* "distance / 60": km per hour
AverageSpeed == 60
\* "distance * 8": rupees per km
CostPerKm == 8

RECURSIVE CollectNearby(_, _, _, _)
CollectNearby(ns, newNode, i, nearbyNodes) ==
  IF i > Len(ns) THEN nearbyNodes
  ELSE IF ns[i].id = newNode.id
    THEN CollectNearby(ns, newNode, i + 1, nearbyNodes)
    ELSE LET distance == calculateHaversineDistance(newNode.lat, newNode.lng,
                                                    ns[i].lat, ns[i].lng)
         IN  IF distance < NearbyRadiusKm * DistScale
               THEN CollectNearby(ns, newNode, i + 1,
                      Append(nearbyNodes, [node |-> ns[i], distance |-> distance]))
               ELSE CollectNearby(ns, newNode, i + 1, nearbyNodes)

\* Array.prototype.sort((a, b) => a.distance - b.distance): stable
RECURSIVE InsertSorted(_, _)
InsertSorted(sorted, x) ==
  IF sorted = <<>> THEN <<x>>
  ELSE IF x.distance < sorted[Len(sorted)].distance
    THEN Append(InsertSorted(SubSeq(sorted, 1, Len(sorted) - 1), x),
                sorted[Len(sorted)])
    ELSE Append(sorted, x)

RECURSIVE SortByDistance(_, _, _)
SortByDistance(list, i, sorted) ==
  IF i > Len(list) THEN sorted
  ELSE SortByDistance(list, i + 1, InsertSorted(sorted, list[i]))

\* SyntheticEdge with the road type of the seed highways
SyntheticEdgeNationalHighway(newNode, node, distance) ==
  [from |-> newNode.id,
   to |-> node.id,
   distance |-> distance,
   time |-> (distance * TimeScale) \div (AverageSpeed * DistScale),
   cost |-> (distance * CostPerKm * CostScale) \div DistScale,
   roadType |-> "national_highway",
   tollCost |-> 0,
   trafficFactor |-> TfScale]

SyntheticEdge(newNode, node, distance) ==
  [from |-> newNode.id,
   to |-> node.id,
   distance |-> distance,
   time |-> (distance * TimeScale) \div (AverageSpeed * DistScale),
   cost |-> (distance * CostPerKm * CostScale) \div DistScale,
   roadType |-> "state_highway",
   tollCost |-> 0,
   trafficFactor |-> TfScale]

\* ConnectLoop adding only the edge from the neighbour to the new node
RECURSIVE ConnectLoopOneWay(_, _, _, _)
ConnectLoopOneWay(es, newNode, nearest, i) ==
  IF i > Len(nearest) THEN es
  ELSE LET edge == SyntheticEdge(newNode, nearest[i].node, nearest[i].distance)
       IN  ConnectLoopOneWay(addEdge(es, ReverseEdge(edge)),
                             newNode, nearest, i + 1)

RECURSIVE ConnectLoop(_, _, _, _)
ConnectLoop(es, newNode, nearest, i) ==
  IF i > Len(nearest) THEN es
  ELSE LET edge == SyntheticEdge(newNode, nearest[i].node, nearest[i].distance)
       IN  ConnectLoop(addEdge(addEdge(es, edge), ReverseEdge(edge)),
                       newNode, nearest, i + 1)

\* connectToNearestNodes without the sort
connectToNearestNodesUnsorted(ns, es, newNode) ==
  LET nearbyNodes == CollectNearby(ns, newNode, 1, <<>>)
      nearest == SubSeq(nearbyNodes, 1,
                        IF Len(nearbyNodes) < NearestCount
                          THEN Len(nearbyNodes) ELSE NearestCount)
  IN  ConnectLoop(es, newNode, nearest, 1)

connectToNearestNodes(ns, es, newNode) ==
  LET nearbyNodes == SortByDistance(CollectNearby(ns, newNode, 1, <<>>), 1, <<>>)
      nearest == SubSeq(nearbyNodes, 1,
                        IF Len(nearbyNodes) < NearestCount
                          THEN Len(nearbyNodes) ELSE NearestCount)
  IN  ConnectLoop(es, newNode, nearest, 1)

\* addDynamicNode without this.edges.set(node.id, [])
addDynamicNodeNoAdjacency(ns, es, node) ==
  LET ns1 == NodesSet(ns, node)
  IN  [nodes |-> ns1, edges |-> connectToNearestNodes(ns1, es, node)]

addDynamicNode(ns, es, node) ==
  LET ns1 == NodesSet(ns, node)
      es1 == EdgesSet(es, node.id, <<>>)
  IN  [nodes |-> ns1, edges |-> connectToNearestNodes(ns1, es1, node)]

----------------------------------------------------------------------------
(* The route cards of DijkstraRouteCalculator *)

\* getRouteTypeName(index), index counted from 0
getRouteTypeName(index) ==
  LET names == <<"Fastest Route", "Shortest Route", "Economic Route",
                 "Highway Route">>
  IN  IF index + 1 \in 1..Len(names) THEN names[index + 1]
      ELSE "Alternative Route"

\* calculatedRoutes.map((route, index) => ...): the name shown with each
\* route of the list
RouteCards(calculatedRoutes) ==
  [i \in 1..Len(calculatedRoutes) |->
     [name |-> getRouteTypeName(i - 1), route |-> calculatedRoutes[i]]]

----------------------------------------------------------------------------
(* WebSocketService (src/unnamed/part_003) and the hook that drives it.    *)
(*                                                                         *)
(* ws.socket is this.socket: 0 for null, else the number of the socket.    *)
(* ws.sockets lists every socket io() has created, in creation order, with *)
(* the state socket.io keeps for it: "connecting" (opening, or retrying    *)
(* after a failure: connect() does not switch socket.io's reconnection     *)
(* off), "connected", or "closed" (it emits nothing any more).  connect()  *)
(* overwrites this.socket and never closes the socket it replaces, so a    *)
(* replaced socket keeps its listeners and its events still reach the      *)
(* service.  ws.timers counts the setTimeout callbacks of handleReconnect  *)
(* that have not run yet: the class keeps no handle of them and never      *)
(* clears one.  ws.delay is the delay of the timer scheduled last.         *)
(* ws.scheduled and ws.closedByApp record the past: the number of timers   *)
(* scheduled since the last 'connect' event, and whether disconnect() was  *)
(* called with no connect() of the application after it.                   *)

maxReconnectAttempts == 5
reconnectDelay == 1000

WsInit ==
  [socket |-> 0, sockets |-> <<>>, reconnectAttempts |-> 0, timers |-> 0,
   delay |-> 0, scheduled |-> 0, closedByApp |-> FALSE]

\* connect(): this.socket = io(...); setupEventListeners()
connect(w) ==
  [w EXCEPT !.sockets = Append(@, "connecting"),
            !.socket = Len(w.sockets) + 1]

handleReconnect(w) ==
  IF w.reconnectAttempts < maxReconnectAttempts
    THEN LET attempts == w.reconnectAttempts + 1
         IN  [w EXCEPT !.reconnectAttempts = attempts,
                       !.delay = reconnectDelay * 2 ^ (attempts - 1),
                       !.timers = @ + 1,
                       !.scheduled = @ + 1]
    ELSE w

\* the 'connect' listener, run for socket s
onConnect(w, s) ==
  [w EXCEPT !.sockets[s] = "connected",
            !.reconnectAttempts = 0,
            !.scheduled = 0]

\* the 'disconnect' listener, run for socket s, which socket.io leaves in
\* state after (retrying, or closed for good)
onDisconnect(w, s, after) ==
  handleReconnect([w EXCEPT !.sockets[s] = after])

\* the 'connect_error' listener, run for socket s
onConnectError(w, s, after) ==
  handleReconnect([w EXCEPT !.sockets[s] = after])

\* disconnect(): socket.disconnect() closes the socket, and socket.io emits
\* 'disconnect' to the listeners of a socket that was connected, before
\* disconnect() goes on to this.socket = null
disconnect(w) ==
  IF w.socket # 0
    THEN LET closed ==
               IF w.sockets[w.socket] = "connected"
                 THEN onDisconnect(w, w.socket, "closed")
                 ELSE [w EXCEPT !.sockets[w.socket] = "closed"]
         IN  [closed EXCEPT !.socket = 0]
    ELSE w

----------------------------------------------------------------------------
(* The callers' inputs *)

\* the custom locations a caller inserts.  custom_1 is a location the
\* caller moves: 7.8 km from panvel_junction; the position of khalapur_toll;
\* and lat 20.873748980586473, lng 74.0058, whose distance from nashik_fuel
\* the program's formula gives as exactly 100 km, with no other node nearer.
\* custom_2 is 6.3 km from khalapur_toll
DynamicNodes ==
  { [id |-> "custom_1", lat |-> 190300, lng |-> 730500, type |-> "rest_area"],
    [id |-> "custom_1", lat |-> 188642, lng |-> 733467, type |-> "rest_area"],
    [id |-> "custom_1", lat |-> 208737, lng |-> 740058, type |-> "rest_area"],
    [id |-> "custom_2", lat |-> 189000, lng |-> 733000, type |-> "fuel"] }

\* the ids a caller asks about: the ends and two inner nodes of the
\* Mumbai-Pune corridor, a node at the far end of the seed network, the two
\* seed nodes without edges that a custom location can come near, the custom
\* locations (unknown ids until they are inserted) and an id that is never
\* a node
QueryIds ==
  { "mumbai", "panvel_junction", "khalapur_toll", "pune", "khed_toll",
    "kolkata", "nashik_fuel", "custom_1", "custom_2", "nowhere" }

NoNode == [id |-> Null, lat |-> 0, lng |-> 0, type |-> Null]

\* node is the id of the node passed to addDynamicNode, arg the node itself
NoCall ==
  [op |-> "none", startId |-> Null, endId |-> Null, mode |-> Null,
   node |-> Null, arg |-> NoNode, fresh |-> FALSE]

\* no findShortestPath is in its main loop.  break says that the loop was
\* left by one of its two break statements.
NoSearch ==
  [active |-> FALSE, break |-> FALSE,
   st |-> [distances |-> [id \in {} |-> 0], previous |-> [id \in {} |-> Null],
           visited |-> {}, order |-> <<>>, unvisited |-> <<>>]]

----------------------------------------------------------------------------
(* The state machine *)

Init ==
  /\ nodes = initializeIndianRoadNetwork.nodes
  /\ edges = initializeIndianRoadNetwork.edges
  /\ pc = "idle"
  /\ call = NoCall
  /\ route = NullRoute
  /\ routes = <<>>
  /\ adds = 0
  /\ search = NoSearch
  /\ ws = WsInit

AddDynamicNode(n) ==
  /\ pc = "idle"
  /\ adds < MaxAdds
  /\ LET g == addDynamicNode(nodes, edges, n)
     IN  /\ nodes' = g.nodes
         /\ edges' = g.edges
  /\ adds' = adds + 1
  /\ pc' = "returned"
  /\ call' = [NoCall EXCEPT !.op = "addDynamicNode", !.node = n.id,
                            !.arg = n, !.fresh = ~NodesHas(nodes, n.id)]
  /\ UNCHANGED <<route, routes, search, ws>>

\* a findShortestPath that gives an id without adjacency list an empty one
FindShortestPathRegistering(startId, endId, optimizeFor) ==
  /\ pc = "idle"
  /\ route' = findShortestPath(nodes, edges, startId, endId, optimizeFor)
  /\ pc' = "returned"
  /\ call' = [NoCall EXCEPT !.op = "findShortestPath", !.startId = startId,
                            !.endId = endId, !.mode = optimizeFor]
  /\ edges' = EdgesSet(edges, startId, EdgesGet(edges, startId))
  /\ UNCHANGED <<nodes, routes, adds, search, ws>>

FindShortestPath(startId, endId, optimizeFor) ==
  /\ pc = "idle"
  /\ route' = findShortestPath(nodes, edges, startId, endId, optimizeFor)
  /\ pc' = "returned"
  /\ call' = [NoCall EXCEPT !.op = "findShortestPath", !.startId = startId,
                            !.endId = endId, !.mode = optimizeFor]
  /\ UNCHANGED <<nodes, edges, routes, adds, search, ws>>

FindMultipleRoutes(startId, endId) ==
  /\ pc = "idle"
  /\ routes' = findMultipleRoutes(nodes, edges, startId, endId)
  /\ pc' = "returned"
  /\ call' = [NoCall EXCEPT !.op = "findMultipleRoutes", !.startId = startId,
                            !.endId = endId]
  /\ UNCHANGED <<nodes, edges, route, adds, search, ws>>

\* the caller takes the result and is ready for its next call
Return ==
  /\ pc = "returned"
  /\ pc' = "idle"
  /\ call' = NoCall
  /\ route' = NullRoute
  /\ routes' = <<>>
  /\ search' = NoSearch
  /\ UNCHANGED <<nodes, edges, adds, ws>>

Next ==
  \/ \E n \in DynamicNodes : AddDynamicNode(n)
  \/ \E s \in QueryIds, e \in QueryIds, m \in Modes : FindShortestPath(s, e, m)
  \/ \E s \in QueryIds, e \in QueryIds : FindMultipleRoutes(s, e)
  \/ Return

Spec == Init /\ [][Next]_vars

----------------------------------------------------------------------------
(* The graph after addEdge calls with edges the class does not validate.   *)
(* addEdge is private in the TypeScript source, which the compiled         *)
(* JavaScript does not enforce; it stores any edge, also one whose to is   *)
(* no node.                                                                *)

\* the edges passed to addEdge: one from mumbai to an id that is no node, a
\* valid direct edge from mumbai to pune (shorter, slower and dearer than
\* the corridor) and a weightless edge from the isolated khed_toll to an id
\* that is no node
ExtraEdges ==
  { SeedEdge("mumbai", "nowhere", 1, 1, 1, "city_road", 0, 10),
    SeedEdge("mumbai", "pune", 100, 200, 400, "state_highway", 0, 10),
    SeedEdge("khed_toll", "nowhere", 0, 0, 0, "city_road", 0, 10) }

AddEdge(edge) ==
  /\ pc = "idle"
  /\ adds < MaxEdgeAdds
  /\ edges' = addEdge(edges, edge)
  /\ adds' = adds + 1
  /\ pc' = "returned"
  /\ call' = [NoCall EXCEPT !.op = "addEdge"]
  /\ UNCHANGED <<nodes, route, routes, search, ws>>

MalformedNext ==
  \/ \E edge \in ExtraEdges : AddEdge(edge)
  \/ \E s \in QueryIds, e \in QueryIds, m \in Modes : FindShortestPath(s, e, m)
  \/ Return

MalformedSpec == Init /\ [][MalformedNext]_vars

----------------------------------------------------------------------------
(* findShortestPath one pass of its main loop at a time: what SearchLoop   *)
(* computes in one go is here a behaviour, so that the order of the visits *)
(* and the values a pass leaves can be observed.                           *)

\* lines 183-203: the guard and the initialisation
BeginSearch(startId, endId, optimizeFor) ==
  /\ pc = "idle"
  /\ call' = [NoCall EXCEPT !.op = "findShortestPath", !.startId = startId,
                            !.endId = endId, !.mode = optimizeFor]
  /\ IF ~NodesHas(nodes, startId) \/ ~NodesHas(nodes, endId)
       THEN /\ route' = NullRoute
            /\ pc' = "returned"
            /\ search' = search
       ELSE /\ route' = route
            /\ pc' = "searching"
            /\ search' = [active |-> TRUE, break |-> FALSE,
                          st |-> SearchInit(nodes, startId)]
  /\ UNCHANGED <<nodes, edges, routes, adds, ws>>

\* lines 205-252: one pass through the body of the while loop
SearchStep ==
  /\ pc = "searching"
  /\ ~search.break
  /\ Len(search.st.unvisited) > 0
  /\ LET it == SearchIteration(search.st, edges, call.endId, call.mode)
     IN  search' = [active |-> TRUE, break |-> it.break, st |-> it.st]
  /\ UNCHANGED <<nodes, edges, pc, call, route, routes, adds, ws>>

\* lines 254-267: the loop is over; the path is rebuilt and returned
EndSearch ==
  /\ pc = "searching"
  /\ search.break \/ Len(search.st.unvisited) = 0
  /\ route' = PathResult(nodes, edges, search.st, call.startId, call.endId)
  /\ pc' = "returned"
  /\ UNCHANGED <<nodes, edges, call, routes, adds, search, ws>>

SearchNext ==
  \/ \E n \in DynamicNodes : AddDynamicNode(n)
  \/ \E s \in QueryIds, e \in QueryIds, m \in Modes : BeginSearch(s, e, m)
  \/ SearchStep
  \/ EndSearch
  \/ Return

SearchSpec == Init /\ [][SearchNext]_vars

----------------------------------------------------------------------------
(* The route calculator on the seed network: findMultipleRoutes for every  *)
(* pair of seed nodes, no dynamic node inserted.                           *)

SeedIds == NodeIds(initializeIndianRoadNetwork.nodes)

SeedNext ==
  \/ \E s \in SeedIds, e \in SeedIds : FindMultipleRoutes(s, e)
  \/ Return

SeedSpec == Init /\ [][SeedNext]_vars

----------------------------------------------------------------------------
(* WebSocketService driven by the tracking hook (connect() in the effect,  *)
(* disconnect() in its cleanup), by the events of its sockets and by its   *)
(* reconnect timers.  Every socket that is not closed can emit, whether or *)
(* not it is still this.socket.                                            *)

routerVars == <<nodes, edges, pc, call, route, routes, adds, search>>

\* a step that may schedule a timer stays within MaxTimers
TimerRoom(w) ==
  w.timers < MaxTimers \/ w.reconnectAttempts >= maxReconnectAttempts

Connect ==
  /\ Len(ws.sockets) < MaxSockets
  /\ ws' = [connect(ws) EXCEPT !.closedByApp = FALSE]
  /\ UNCHANGED routerVars

Disconnect ==
  /\ TimerRoom(ws)
  /\ ws' = [disconnect(ws) EXCEPT !.closedByApp = TRUE]
  /\ UNCHANGED routerVars

OnConnect(s) ==
  /\ ws.sockets[s] = "connecting"
  /\ ws' = onConnect(ws, s)
  /\ UNCHANGED routerVars

OnDisconnect(s, after) ==
  /\ ws.sockets[s] = "connected"
  /\ TimerRoom(ws)
  /\ ws' = onDisconnect(ws, s, after)
  /\ UNCHANGED routerVars

OnConnectError(s, after) ==
  /\ ws.sockets[s] = "connecting"
  /\ TimerRoom(ws)
  /\ ws' = onConnectError(ws, s, after)
  /\ UNCHANGED routerVars

\* a reconnect timer runs its callback: this.connect()
ReconnectTimer ==
  /\ ws.timers > 0
  /\ Len(ws.sockets) < MaxSockets
  /\ ws' = connect([ws EXCEPT !.timers = @ - 1])
  /\ UNCHANGED routerVars

WebSocketNext ==
  \/ Connect
  \/ Disconnect
  \/ \E s \in DOMAIN ws.sockets : OnConnect(s)
  \/ \E s \in DOMAIN ws.sockets, after \in {"connecting", "closed"} :
       OnDisconnect(s, after)
  \/ \E s \in DOMAIN ws.sockets, after \in {"connecting", "closed"} :
       OnConnectError(s, after)
  \/ ReconnectTimer

WebSocketSpec == Init /\ [][WebSocketNext]_vars

----------------------------------------------------------------------------
(* Reference definitions the properties are stated with.  They are written *)
(* from the statement of each property and use nothing of the search.      *)

Returned(op) == pc = "returned" /\ call.op = op

Range(seq) == {seq[i] : i \in 1..Len(seq)}

SetMin(S) == CHOOSE x \in S : \A y \in S : x <= y

\* every edge stored in some adjacency list
AllEdges == UNION {Range(edges[k]) : k \in DOMAIN edges}

\* the mode-weight of an edge: distance; time * trafficFactor; cost + tollCost
ModeWeight(e, mode) ==
  IF mode = "distance" THEN e.distance
  ELSE IF mode = "time" THEN (e.time * e.trafficFactor) \div TfScale
  ELSE e.cost + e.tollCost

\* the edges from node u to node v
EdgesBetween(u, v) == {e \in AllEdges : e.from = u /\ e.to = v}

\* the weighted edges into every node, parallel edges merged: [from, w]
InEdges(mode) ==
  LET E == AllEdges
  IN  [v \in NodeIds(nodes) |->
         {[from |-> e.from, w |-> ModeWeight(e, mode)] : e \in {x \in E : x.to = v}}]

\* least weight of a path from s to every node (Infinity: none), by
\* relaxing every edge until nothing changes
RefStep(d, in) ==
  [v \in DOMAIN d |->
     SetMin({d[v]} \cup {d[e.from] + e.w :
                          e \in {x \in in[v] : x.from \in DOMAIN d
                                                /\ d[x.from] < Infinity}})]

RECURSIVE RefFix(_, _)
RefFix(d, in) ==
  LET d2 == RefStep(d, in) IN IF d2 = d THEN d ELSE RefFix(d2, in)

RefDist(s, in) ==
  RefFix([v \in NodeIds(nodes) |-> IF v = s THEN 0 ELSE Infinity], in)

\* every simple path from s to the head of `suffix` whose edges are all
\* tight for d, extended by `suffix`: the minimum-weight simple paths
RECURSIVE TightPaths(_, _, _, _)
TightPaths(d, s, suffix, in) ==
  IF suffix[1] = s THEN {suffix}
  ELSE UNION { TightPaths(d, s, <<u>> \o suffix, in) :
                 u \in {x.from : x \in {e \in in[suffix[1]] :
                          /\ e.from \in DOMAIN d
                          /\ e.from \notin Range(suffix)
                          /\ d[e.from] < Infinity
                          /\ d[e.from] + e.w = d[suffix[1]]}} }

MinPaths(d, s, e, in) ==
  IF d[e] < Infinity THEN TightPaths(d, s, <<e>>, in) ELSE {}

\* the mode-weight of a node sequence that is a path of the graph
RECURSIVE PathWeight(_, _, _)
PathWeight(path, i, mode) ==
  IF i >= Len(path) THEN 0
  ELSE SetMin({ModeWeight(e, mode) : e \in EdgesBetween(path[i], path[i + 1])})
         + PathWeight(path, i + 1, mode)

IsPath(path) ==
  /\ Len(path) >= 1
  /\ \A i \in 1..Len(path) : NodesHas(nodes, path[i])
  /\ \A i \in 1..(Len(path) - 1) : EdgesBetween(path[i], path[i + 1]) # {}

\* the nodes some directed edge path leads to from s
RECURSIVE ReachFix(_)
ReachFix(S) ==
  LET T == S \cup {e.to : e \in {x \in AllEdges : x.from \in S}}
  IN  IF T = S THEN S ELSE ReachFix(T)

Reachable(s, e) == e \in ReachFix({s})

----------------------------------------------------------------------------
\* C1: Optimality.  Whenever findShortestPath(start, end, mode) returns a
\* route, its node sequence is a path of the graph from start to end whose
\* mode-weight is the least weight of any path from start to end, and when
\* the minimum-weight path is unique the node sequence is that path.
C1_Optimality ==
  (Returned("findShortestPath") /\ route.found) =>
     LET in == InEdges(call.mode)
         d == RefDist(call.startId, in)
         best == MinPaths(d, call.startId, call.endId, in)
     IN  /\ IsPath(route.path)
         /\ d[call.endId] < Infinity
         /\ PathWeight(route.path, 1, call.mode) = d[call.endId]
         /\ route.path \in best
         /\ (Cardinality(best) = 1 => best = {route.path})

\* a query answered through the inserted node, where the least-weight path
\* is unique and a heavier path (the seed edges) exists too
C1_Witness ==
  /\ Returned("findShortestPath") /\ route.found
  /\ call.startId = "mumbai" /\ call.endId = "khalapur_toll"
  /\ call.mode = "distance"
  /\ route.path = <<"mumbai", "custom_1", "panvel_junction", "khalapur_toll">>
  /\ LET in == InEdges("distance")
     IN  Cardinality(MinPaths(RefDist("mumbai", in), "mumbai",
                              "khalapur_toll", in)) = 1
  /\ EdgesBetween("mumbai", "panvel_junction") # {}

\* C2: Shape of a returned route.  path starts at start and ends at end,
\* every consecutive pair of path is joined by an edge of the first node's
\* adjacency list, coordinates holds the position of each path node in path
\* order, and segments holds one entry per consecutive pair.
C2_RouteShape ==
  (Returned("findShortestPath") /\ route.found) =>
     /\ Len(route.path) >= 1
     /\ route.path[1] = call.startId
     /\ route.path[Len(route.path)] = call.endId
     /\ \A i \in 1..(Len(route.path) - 1) :
          \E k \in 1..Len(EdgesGet(edges, route.path[i])) :
             EdgesGet(edges, route.path[i])[k].to = route.path[i + 1]
     /\ Len(route.coordinates) = Len(route.path)
     /\ \A i \in 1..Len(route.path) :
          /\ route.coordinates[i].lat = NodesGet(nodes, route.path[i]).lat
          /\ route.coordinates[i].lng = NodesGet(nodes, route.path[i]).lng
     /\ Len(route.segments) = Len(route.path) - 1
     /\ \A i \in 1..(Len(route.path) - 1) :
          /\ route.segments[i].from = route.path[i]
          /\ route.segments[i].to = route.path[i + 1]

C2_Witness ==
  /\ Returned("findShortestPath") /\ route.found
  /\ Len(route.path) >= 4
  /\ "custom_1" \in Range(route.path)

\* the first edge to path[i + 1] in the adjacency list of path[i]: the edge
\* a route over `path` is built from
StepEdge(path, i) ==
  LET list == EdgesGet(edges, path[i])
  IN  list[CHOOSE k \in 1..Len(list) :
             list[k].to = path[i + 1] /\ \A j \in 1..(k - 1) : list[j].to # path[i + 1]]

RECURSIVE SumWeights(_, _, _)
SumWeights(path, i, mode) ==
  IF i >= Len(path) THEN 0
  ELSE ModeWeight(StepEdge(path, i), mode) + SumWeights(path, i + 1, mode)

ReportedTotal(r, mode) ==
  IF mode = "distance" THEN r.totalDistance
  ELSE IF mode = "time" THEN r.totalTime
  ELSE r.totalCost

\* C3: Self-consistency of totals.  For every returned route, totalDistance
\* is the sum of distance over the edges of the path, totalTime the sum of
\* time * trafficFactor and totalCost the sum of cost + tollCost; and the
\* total of the mode that drove the search is the weight the search found
\* for endId.
C3_TotalsSelfConsistent ==
  (Returned("findShortestPath") /\ route.found) =>
     /\ route.totalDistance = SumWeights(route.path, 1, "distance")
     /\ route.totalTime = SumWeights(route.path, 1, "time")
     /\ route.totalCost = SumWeights(route.path, 1, "cost")
     /\ ReportedTotal(route, call.mode) =
          Search(nodes, edges, call.startId, call.endId,
                 call.mode).distances[call.endId]

\* C4: For every node A of the graph and every mode, findShortestPath(A, A,
\* mode) returns the route with path [A], all totals zero, no segments and
\* the single coordinate of A.
C4_SameNode ==
  (/\ Returned("findShortestPath")
   /\ call.startId = call.endId
   /\ NodesHas(nodes, call.startId)) =>
     /\ route.found
     /\ route.path = <<call.startId>>
     /\ route.totalDistance = 0 /\ route.totalTime = 0 /\ route.totalCost = 0
     /\ route.segments = <<>>
     /\ route.coordinates =
          << [lat |-> NodesGet(nodes, call.startId).lat,
              lng |-> NodesGet(nodes, call.startId).lng] >>

\* the query from an inserted node to itself, when a zero-weight edge
\* leaves it
C4_Witness ==
  /\ Returned("findShortestPath")
  /\ call.startId = "custom_1" /\ call.endId = "custom_1"
  /\ route.found
  /\ \E e \in Range(EdgesGet(edges, "custom_1")) : e.distance = 0

\* C5: Unreachable target.  For existing, distinct start and end,
\* findShortestPath returns null when no directed edge path leads from start
\* to end, and a route when one does.
C5_Unreachable ==
  (/\ Returned("findShortestPath")
   /\ NodesHas(nodes, call.startId) /\ NodesHas(nodes, call.endId)
   /\ call.startId # call.endId) =>
     (route.found <=> Reachable(call.startId, call.endId))

\* null for a target that edges lead to but not from: custom_1 moved out of
\* reach of its former neighbours, which still hold their edges to it
C5_Witness ==
  /\ Returned("findShortestPath")
  /\ call.startId = "custom_1" /\ call.endId = "mumbai"
  /\ NodesHas(nodes, "custom_1")
  /\ ~route.found
  /\ Reachable("mumbai", "custom_1")

\* C6: Unknown node id.  If startId or endId is not a key of the node set,
\* findShortestPath returns null and findMultipleRoutes the empty list.
C6_UnknownId ==
  (/\ pc = "returned"
   /\ call.op \in {"findShortestPath", "findMultipleRoutes"}
   /\ (~NodesHas(nodes, call.startId) \/ ~NodesHas(nodes, call.endId))) =>
     /\ call.op = "findShortestPath" => route = NullRoute
     /\ call.op = "findMultipleRoutes" => routes = <<>>

C6_Witness ==
  /\ Returned("findMultipleRoutes")
  /\ call.startId = "mumbai" /\ call.endId = "custom_2"
  /\ NodesHas(nodes, "custom_1") /\ ~NodesHas(nodes, "custom_2")
  /\ routes = <<>>

\* C7: findMultipleRoutes never returns more than 3 routes, and no two of
\* the routes it returns have the same node sequence.
C7_DistinctRoutes ==
  Returned("findMultipleRoutes") =>
     /\ Len(routes) <= 3
     /\ \A i \in 1..Len(routes) : \A j \in 1..Len(routes) :
          i # j => routes[i].path # routes[j].path

\* the three candidates are three different paths
C7_Witness ==
  /\ Returned("findMultipleRoutes")
  /\ Len(routes) = 3

\* the candidates of findMultipleRoutes in the order they are computed,
\* each kept unless its path is the path of one kept before
RECURSIVE Survivors(_, _, _)
Survivors(cands, i, kept) ==
  IF i > Len(cands) THEN kept
  ELSE IF cands[i].found /\ \A k \in 1..Len(kept) : kept[k].path # cands[i].path
    THEN Survivors(cands, i + 1, Append(kept, cands[i]))
    ELSE Survivors(cands, i + 1, kept)

\* C8: findMultipleRoutes returns the surviving candidates in the order
\* distance, time, cost: at least one route whenever a path from start to
\* end exists, none when none exists, and a non-empty list starts with the
\* route that findShortestPath returns in distance mode.
C8_OrderOfRoutes ==
  Returned("findMultipleRoutes") =>
     LET byMode == [m \in Modes |->
                      findShortestPath(nodes, edges, call.startId, call.endId, m)]
         exists == /\ NodesHas(nodes, call.startId)
                   /\ NodesHas(nodes, call.endId)
                   /\ Reachable(call.startId, call.endId)
     IN  /\ routes = Survivors(<<byMode["distance"], byMode["time"],
                                 byMode["cost"]>>, 1, <<>>)
         /\ exists => Len(routes) >= 1
         /\ ~exists => Len(routes) = 0
         /\ Len(routes) >= 1 => routes[1] = byMode["distance"]

\* the time candidate is dropped and the cost candidate kept
C8_Witness ==
  /\ Returned("findMultipleRoutes")
  /\ Len(routes) = 2
  /\ routes[2] = findShortestPath(nodes, edges, call.startId, call.endId, "cost")
  /\ routes[2] # findShortestPath(nodes, edges, call.startId, call.endId, "time")

\* C9: Symmetry.  In every reachable state, for every stored edge e there is
\* an edge from e.to to e.from with the same distance, time, cost, roadType,
\* tollCost and trafficFactor.
C9_Symmetry ==
  \A e \in AllEdges : \E r \in AllEdges : r = ReverseEdge(e)

\* what connectToNearestNodes measures from node n
DistanceFrom(n, m) == calculateHaversineDistance(n.lat, n.lng, m.lat, m.lng)

Others(n) == {nodes[i] : i \in {j \in 1..Len(nodes) : nodes[j].id # n.id}}

Neighbours(n) == {e.to : e \in Range(EdgesGet(edges, n.id))}

Min2(a, b) == IF a < b THEN a ELSE b

\* what C10 says of the state after addDynamicNode(n) with a fresh id, k
\* being the number of other nodes that count as within 100 km
ConnectedToNearest(n, k) ==
  /\ Len(EdgesGet(edges, n.id)) = Min2(NearestCount, k)
  /\ Cardinality(Neighbours(n)) = Min2(NearestCount, k)
  /\ \A m \in Others(n) :
       m.id \in Neighbours(n) =>
         /\ DistanceFrom(n, m) <= NearbyRadiusKm * DistScale
         /\ \E e \in Range(EdgesGet(edges, n.id)) :
               e.to = m.id /\ e.distance = DistanceFrom(n, m)
         /\ \E e \in Range(EdgesGet(edges, m.id)) :
               e.to = n.id /\ e.distance = DistanceFrom(n, m)
         /\ \A x \in Others(n) :
              x.id \notin Neighbours(n) => DistanceFrom(n, x) >= DistanceFrom(n, m)

AddedFresh == Returned("addDynamicNode") /\ call.fresh

\* C10 as stated: k counts the other nodes at most 100 km away
C10_AtMost100 ==
  AddedFresh =>
     LET n == NodesGet(nodes, call.node)
     IN  ConnectedToNearest(n,
           Cardinality({m \in Others(n) :
                          DistanceFrom(n, m) <= NearbyRadiusKm * DistScale}))

\* C10 (amended): addDynamicNode(n) with a fresh id connects n in both
\* directions to exactly the min(3, k) nearest other nodes, k being the
\* number of other nodes strictly less than 100 km from n: n has min(3, k)
\* outgoing edges, every neighbour is less than 100 km away, and no node
\* that is not a neighbour is strictly closer than a neighbour.
C10_LessThan100 ==
  AddedFresh =>
     LET n == NodesGet(nodes, call.node)
     IN  /\ ConnectedToNearest(n,
              Cardinality({m \in Others(n) :
                             DistanceFrom(n, m) < NearbyRadiusKm * DistScale}))
         /\ \A m \in Others(n) :
              m.id \in Neighbours(n) =>
                DistanceFrom(n, m) < NearbyRadiusKm * DistScale

\* a fresh node with more than 3 other nodes in reach, two of them equally
\* far, is connected to 3
C10_Witness ==
  /\ AddedFresh
  /\ call.node = "custom_2"
  /\ NodesHas(nodes, "custom_1")
  /\ Neighbours(NodesGet(nodes, "custom_2"))
       = {"khalapur_toll", "custom_1", "lonavala_fuel"}

\* the other nodes that connectToNearestNodes counts as within 100 km of n
\* (its test is distance < 100)
Within100(n) ==
  {m \in Others(n) : DistanceFrom(n, m) < NearbyRadiusKm * DistScale}

\* the nodes of S nearest to n
Nearest(n, S) ==
  {m \in S : \A x \in S : DistanceFrom(n, m) <= DistanceFrom(n, x)}

\* C11: Right after addDynamicNode(n) with a fresh id: if some other node is
\* within 100 km of n, findShortestPath from n to its nearest other node
\* returns a route in every mode; if no other node is within 100 km, n has
\* an empty adjacency list and findShortestPath between n and every other
\* node, in either direction and every mode, returns the unreachable result.
C11_DynamicReachability ==
  AddedFresh =>
     LET n == NodesGet(nodes, call.node)
     IN  IF Within100(n) # {}
           THEN \A m \in Nearest(n, Others(n)), mode \in Modes :
                  findShortestPath(nodes, edges, n.id, m.id, mode).found
           ELSE /\ n.id \in DOMAIN edges
                /\ EdgesGet(edges, n.id) = <<>>
                /\ \A x \in Others(n), mode \in Modes :
                     /\ findShortestPath(nodes, edges, n.id, x.id, mode)
                          = NullRoute
                     /\ findShortestPath(nodes, edges, x.id, n.id, mode)
                          = NullRoute

\* a fresh node whose nearest other node is exactly 100 km away, so that no
\* node is within 100 km: it is registered and isolated
C11_Witness ==
  /\ AddedFresh
  /\ LET n == NodesGet(nodes, call.node)
     IN  /\ Within100(n) = {}
         /\ \E m \in Others(n) : DistanceFrom(n, m) = NearbyRadiusKm * DistScale
         /\ EdgesGet(edges, n.id) = <<>>

DynamicIds == {d.id : d \in DynamicNodes}

\* C12: Scenario 3.  When a distance-mode findShortestPath between a dynamic
\* node n and a node s returns, s being a neighbour that addDynamicNode gave
\* n at no more than 10 km, the path is the two nodes of the query and
\* totalDistance is the great-circle distance between n and s that the
\* synthesized edge carries.
C12_Scenario3 ==
  (Returned("findShortestPath") /\ call.mode = "distance") =>
     \A a \in {call.startId, call.endId} \cap DynamicIds :
        \A b \in {call.startId, call.endId} \ {a} :
           (/\ NodesHas(nodes, a) /\ NodesHas(nodes, b)
            /\ b \in Neighbours(NodesGet(nodes, a))
            /\ DistanceFrom(NodesGet(nodes, a), NodesGet(nodes, b))
                 <= 10 * DistScale)
           => /\ route.found
              /\ route.path = <<call.startId, call.endId>>
              /\ route.totalDistance
                   = DistanceFrom(NodesGet(nodes, a), NodesGet(nodes, b))

\* C13: Scenario 1.  On the seed network (no dynamic node inserted),
\* findShortestPath('mumbai', 'pune', 'distance') returns the path mumbai,
\* panvel_junction, khalapur_toll, lonavala_fuel, pune with totalDistance
\* 130 km and totalCost 300.
C13_Scenario1 ==
  (/\ Returned("findShortestPath")
   /\ adds = 0
   /\ call.startId = "mumbai" /\ call.endId = "pune"
   /\ call.mode = "distance")
  => /\ route.found
     /\ route.path = <<"mumbai", "panvel_junction", "khalapur_toll",
                       "lonavala_fuel", "pune">>
     /\ route.totalDistance = 130 * DistScale
     /\ route.totalCost = 300 * CostScale

\* the query of Scenario 1 has returned a route on the seed network
C13_Witness ==
  /\ Returned("findShortestPath")
  /\ adds = 0
  /\ nodes = initializeIndianRoadNetwork.nodes
  /\ call.startId = "mumbai" /\ call.endId = "pune"
  /\ call.mode = "distance"
  /\ Len(route.path) = 5

\* the stored edges that addDynamicNode synthesized: the seed network has
\* no edge at a dynamic id
SynthesizedEdges ==
  {e \in AllEdges : e.from \in DynamicIds \/ e.to \in DynamicIds}

\* C14: Every edge synthesized by addDynamicNode has time equal to
\* distanceKm / 60 * 60 minutes, the travel time at 60 km/h, so that the
\* time-mode weight of a synthesized edge of d km is d minutes.
C14_SynthesizedTime ==
  \A e \in SynthesizedEdges :
     /\ e.time * DistScale = e.distance * TimeScale
     /\ Weight(e, "time") * DistScale = e.distance * TimeScale

\* the attributes C15 gives a synthesized edge, but for its distance
SynthesizedAttributes(e) ==
  /\ e.roadType = "state_highway"
  /\ e.tollCost = 0
  /\ e.trafficFactor = 1 * TfScale
  /\ e.cost * DistScale = e.distance * 8 * CostScale

\* C15: Every synthesized edge, in either direction, has roadType
\* state_highway, tollCost 0, trafficFactor 1.0 and cost = distance * 8; and
\* right after addDynamicNode(n) every edge the call gave n has the
\* great-circle distance between n and its other endpoint as distance, and
\* the edge the call appended to that endpoint's adjacency list carries the
\* same attributes in the other direction.
C15_SynthesizedAttributes ==
  /\ \A e \in SynthesizedEdges : SynthesizedAttributes(e)
  /\ Returned("addDynamicNode") =>
       LET n == NodesGet(nodes, call.node)
       IN  \A e \in Range(EdgesGet(edges, n.id)) :
              LET back == EdgesGet(edges, e.to)
                  r == back[Len(back)]
              IN  /\ e.from = n.id
                  /\ NodesHas(nodes, e.to)
                  /\ e.distance = DistanceFrom(n, NodesGet(nodes, e.to))
                  /\ Len(back) > 0
                  /\ r.from = e.to /\ r.to = e.from
                  /\ r.distance = e.distance
                  /\ r.time = e.time
                  /\ r.cost = e.cost
                  /\ r.roadType = e.roadType
                  /\ r.tollCost = e.tollCost
                  /\ r.trafficFactor = e.trafficFactor

\* an insertion has synthesized three edges of different lengths, in both
\* directions
C15_Witness ==
  /\ Returned("addDynamicNode")
  /\ Len(EdgesGet(edges, call.node)) = 3
  /\ Cardinality({e.distance : e \in Range(EdgesGet(edges, call.node))}) = 3
  /\ \A e \in Range(EdgesGet(edges, call.node)) :
        \E r \in Range(EdgesGet(edges, e.to)) : r.to = call.node

\* C16: Well-formedness.  In every reachable state every stored edge's from
\* and to are node keys, every node id has an adjacency entry, and every
\* adjacency key is a node id; an edge is stored in the list of its from.
C16_WellFormed ==
  /\ \A k \in DOMAIN edges :
        \A e \in Range(edges[k]) :
           /\ e.from = k
           /\ NodesHas(nodes, e.from)
           /\ NodesHas(nodes, e.to)
  /\ \A id \in NodeIds(nodes) : id \in DOMAIN edges
  /\ \A k \in DOMAIN edges : NodesHas(nodes, k)

\* the graph holds an isolated dynamic node next to a connected one
C16_Witness ==
  /\ NodesHas(nodes, "custom_1") /\ NodesHas(nodes, "custom_2")
  /\ EdgesGet(edges, "custom_1") = <<>>
  /\ Len(EdgesGet(edges, "custom_2")) = 3

\* C17: Nodes are never removed.  Every step keeps every node id; a step of
\* addDynamicNode with an id that is already a node leaves the number of
\* nodes and the set of ids as they are and stores the attributes passed
\* in the call under that id.
C17_NodesNeverRemoved ==
  [][/\ NodeIds(nodes) \subseteq NodeIds(nodes')
     /\ Len(nodes') >= Len(nodes)
     /\ (pc' = "returned" /\ call'.op = "addDynamicNode" /\ ~call'.fresh) =>
          /\ NodesHas(nodes, call'.node)
          /\ Len(nodes') = Len(nodes)
          /\ NodeIds(nodes') = NodeIds(nodes)
          /\ NodesGet(nodes', call'.node) = call'.arg]_vars

\* addDynamicNode has returned from a call with an id that was a node, and
\* the node is now where the call put it, not where its older edges say
C17_Witness ==
  /\ Returned("addDynamicNode")
  /\ ~call.fresh
  /\ NodesGet(nodes, call.node) = call.arg
  /\ \E e \in AllEdges :
        /\ e.to = call.node
        /\ e.distance # DistanceFrom(call.arg, NodesGet(nodes, e.from))

\* C18: Queries are stateless.  A step of findShortestPath or
\* findMultipleRoutes, with known or unknown ids, leaves the node map and
\* every adjacency list as they were, and the same query asked again in the
\* state it leaves returns an equal result.
C18_QueriesStateless ==
  [][(pc' = "returned"
        /\ call'.op \in {"findShortestPath", "findMultipleRoutes"}) =>
       /\ nodes' = nodes
       /\ edges' = edges
       /\ call'.op = "findShortestPath" =>
            route' = findShortestPath(nodes', edges', call'.startId,
                                      call'.endId, call'.mode)
       /\ call'.op = "findMultipleRoutes" =>
            routes' = findMultipleRoutes(nodes', edges', call'.startId,
                                         call'.endId)]_vars

\* a query with an id that is no node has returned, after an insertion, and
\* the id has not become a key of either map
C18_Witness ==
  /\ Returned("findShortestPath")
  /\ adds > 0
  /\ NodesHas(nodes, call.startId)
  /\ ~NodesHas(nodes, call.endId)
  /\ call.endId \notin DOMAIN edges
  /\ route = NullRoute

\* the adjacency lists without the edges whose to is no node
WithoutMalformed(es) ==
  [k \in DOMAIN es |-> SelectSeq(es[k], LAMBDA e : NodesHas(nodes, e.to))]

MalformedEdges == {e \in AllEdges : ~NodesHas(nodes, e.to)}

\* C19: Malformed edge.  With edges stored whose to is no node key, every
\* findShortestPath returns (no error), no returned path contains an id
\* that is no node, and every result, for every pair of ids and every mode,
\* is the result the same query has with those edges absent.
C19_MalformedEdge ==
  Returned("findShortestPath") =>
     /\ \A i \in 1..Len(route.path) : NodesHas(nodes, route.path[i])
     /\ \A e \in MalformedEdges : \A i \in 1..Len(route.path) :
           route.path[i] # e.to
     /\ route = findShortestPath(nodes, WithoutMalformed(edges),
                                 call.startId, call.endId, call.mode)

\* a query from the node that holds a malformed edge has returned a path
\* along an edge stored after the malformed one
C19_Witness ==
  /\ Returned("findShortestPath")
  /\ call.startId = "mumbai" /\ call.endId = "pune"
  /\ route.path = <<"mumbai", "pune">>
  /\ \E i, j \in 1..Len(EdgesGet(edges, "mumbai")) :
        /\ i < j
        /\ edges["mumbai"][i] \in MalformedEdges
        /\ edges["mumbai"][j].to = "pune"

\* the search taken one pass at a time returns what findShortestPath returns
SearchAgrees ==
  (pc = "returned" /\ call.op = "findShortestPath") =>
     route = findShortestPath(nodes, edges, call.startId, call.endId, call.mode)

\* no unvisited node of the search state S has a finite tentative distance
NoneFinite(S) ==
  \A i \in 1..Len(S.unvisited) : S.distances[S.unvisited[i]] = Infinity

\* what C20 says of a state in which a search is under way or has just ended
EarlyTerminationState ==
  search.active =>
     LET S == search.st
     IN  /\ S.visited = Range(S.order)
         /\ Range(S.unvisited) = NodeIds(nodes) \ S.visited
         \* endId is visited in the pass that leaves the loop, and last
         /\ call.endId \in S.visited =>
              /\ search.break
              /\ S.order[Len(S.order)] = call.endId
         \* the loop is left by a break only for one of the two reasons
         /\ search.break => (call.endId \in S.visited \/ NoneFinite(S))
         \* no edge of endId has been relaxed
         /\ \A v \in DOMAIN S.previous : S.previous[v] # call.endId
         /\ S.visited \subseteq ReachFix({call.startId})

\* what C20 says of a step of a search
EarlyTerminationStep ==
  (search.active /\ search'.active) =>
     LET S == search.st
         T == search'.st
     IN  /\ \A v \in S.visited :
               /\ T.distances[v] = S.distances[v]
               /\ T.previous[v] = S.previous[v]
         /\ S.visited \subseteq T.visited
         /\ SubSeq(T.order, 1, Len(S.order)) = S.order
         /\ Len(T.order) <= Len(S.order) + 1
         \* nothing runs after a break
         /\ search.break => search' = search
         \* the pass that finds no unvisited node of finite distance visits
         \* nothing and leaves the loop
         /\ (~search.break /\ NoneFinite(S) /\ search' # search) =>
               (search'.break /\ T = S)

\* C20: Early termination.  The main loop of findShortestPath ends in the
\* pass in which endId is selected as the unvisited minimum, before any
\* edge of endId is relaxed, or in the first pass that finds no unvisited
\* node of finite distance.  So no node is marked visited after endId,
\* every visited node is reachable from startId, and the tentative distance
\* and the predecessor of a visited node never change afterwards.
C20_EarlyTermination ==
  []EarlyTerminationState /\ [][EarlyTerminationStep]_vars

\* a search has ended at endId after three visits or more, leaving unvisited
\* nodes of finite distance behind
C20_Witness ==
  /\ pc = "returned"
  /\ search.active /\ search.break
  /\ Len(search.st.order) >= 3
  /\ search.st.order[Len(search.st.order)] = call.endId
  /\ ~NoneFinite(search.st)

\* the place of a node id in the insertion order of the node map
Pos(id) == CHOOSE i \in 1..Len(nodes) : nodes[i].id = id

\* C21: Tie-breaking.  The node a pass of the search visits is an unvisited
\* node of the smallest tentative distance, which is finite, and among
\* the unvisited nodes of that distance it is the first in the insertion
\* order of the node map.  That order is the seed order followed by the
\* dynamic nodes in the order of their first insertion: no step changes the
\* place of a node id.
C21_TieBreak ==
  [][/\ SubSeq(NodeKeys(nodes'), 1, Len(nodes)) = NodeKeys(nodes)
     /\ (search.active /\ search'.active
           /\ Len(search'.st.order) = Len(search.st.order) + 1) =>
          LET S == search.st
              v == search'.st.order[Len(search'.st.order)]
          IN  /\ v \in Range(S.unvisited)
              /\ S.distances[v] < Infinity
              /\ \A u \in Range(S.unvisited) :
                    /\ S.distances[v] <= S.distances[u]
                    /\ S.distances[u] = S.distances[v] => Pos(v) <= Pos(u)]_vars

\* a pass has visited a node while a node later in the insertion order had
\* the same tentative distance, which it got from an earlier pass
C21_Witness ==
  /\ search.active
  /\ Len(search.st.order) >= 2
  /\ LET S == search.st
         v == S.order[Len(S.order)]
     IN  \E u \in Range(S.unvisited) :
            /\ S.distances[u] = S.distances[v]
            /\ S.previous[u] # v
            /\ Pos(v) < Pos(u)

\* RefDist in the state a step leads to
RefDistNext(s, mode) ==
  LET E == UNION {Range(edges'[k]) : k \in DOMAIN edges'}
      in == [v \in NodeIds(nodes') |->
               {[from |-> e.from, w |-> ModeWeight(e, mode)] :
                  e \in {x \in E : x.to = v}}]
  IN  RefFix([v \in NodeIds(nodes') |-> IF v = s THEN 0 ELSE Infinity], in)

\* C22: Monotonicity under insertion.  Across every addDynamicNode call, for
\* all ids A, B that were nodes before the call and every mode: if
\* findShortestPath(A, B, mode) returned a route before the call it returns
\* one after it, and the least mode-weight of a path from A to B is not
\* greater after the call than before.
C22_Monotone ==
  [][(pc' = "returned" /\ call'.op = "addDynamicNode") =>
       \A A \in NodeIds(nodes) \cap QueryIds, mode \in Modes :
          LET before == RefDist(A, InEdges(mode))
              after == RefDistNext(A, mode)
          IN  \A B \in NodeIds(nodes) :
                 /\ after[B] <= before[B]
                 /\ (B \in QueryIds
                       /\ findShortestPath(nodes, edges, A, B, mode).found)
                      => findShortestPath(nodes', edges', A, B, mode).found]_vars

\* C23: The graph is simple.  In every reachable state no edge leads from a
\* node to itself and no adjacency list holds two edges with the same to.
C23_Simple ==
  \A k \in DOMAIN edges :
     /\ \A i \in 1..Len(edges[k]) : edges[k][i].to # edges[k][i].from
     /\ \A i, j \in 1..Len(edges[k]) :
           i # j => edges[k][i].to # edges[k][j].to

\* C24: Frame of addDynamicNode.  A call addDynamicNode(n) leaves every node
\* entry but that of n.id as it was and adds no key but n.id; the adjacency
\* list of n.id has at most 3 edges, to different nodes; each of these
\* neighbours keeps its list and gains exactly one edge, to n.id, at the
\* end; every other adjacency list is unchanged.
C24_AddFrame ==
  [][(pc' = "returned" /\ call'.op = "addDynamicNode") =>
       LET id == call'.node
           chosen == {e.to : e \in Range(edges'[id])}
       IN  /\ NodeKeys(nodes') \in {NodeKeys(nodes), Append(NodeKeys(nodes), id)}
           /\ \A i \in 1..Len(nodes) : nodes[i].id # id => nodes'[i] = nodes[i]
           /\ DOMAIN edges' = DOMAIN edges \cup {id}
           /\ Len(edges'[id]) <= 3
           /\ Cardinality(chosen) = Len(edges'[id])
           /\ id \notin chosen
           /\ \A k \in DOMAIN edges \ {id} :
                 IF k \in chosen
                   THEN /\ Len(edges'[k]) = Len(edges[k]) + 1
                        /\ SubSeq(edges'[k], 1, Len(edges[k])) = edges[k]
                        /\ edges'[k][Len(edges'[k])].from = k
                        /\ edges'[k][Len(edges'[k])].to = id
                   ELSE edges'[k] = edges[k]]_vars

\* a call with an id that is already a node has returned with 3 neighbours,
\* one of which holds an edge to the id from before the call
C24_Witness ==
  /\ Returned("addDynamicNode")
  /\ ~call.fresh
  /\ Len(EdgesGet(edges, call.node)) = 3
  /\ \E e \in Range(EdgesGet(edges, call.node)) :
        Cardinality({i \in 1..Len(edges[e.to]) : edges[e.to][i].to = call.node}) = 2

\* C25: Direction symmetry of results.  For all node ids A, B and every
\* mode, findShortestPath(A, B, mode) returns a route exactly when
\* findShortestPath(B, A, mode) does, and then the two routes have the same
\* total for the searched mode.
C25_DirectionSymmetry ==
  (/\ Returned("findShortestPath")
   /\ NodesHas(nodes, call.startId) /\ NodesHas(nodes, call.endId)) =>
     LET back == findShortestPath(nodes, edges, call.endId, call.startId,
                                  call.mode)
     IN  /\ route.found <=> back.found
         /\ route.found =>
              ReportedTotal(route, call.mode) = ReportedTotal(back, call.mode)

\* following the predecessor links from v ends at "no predecessor" within k
\* steps
RECURSIVE WalkEnds(_, _, _)
WalkEnds(previous, v, k) ==
  IF v = Null THEN TRUE
  ELSE IF k = 0 THEN FALSE
  ELSE WalkEnds(previous, previous[v], k - 1)

\* what C26 says of a state of a search
TerminationState ==
  search.active =>
     LET S == search.st
     IN  /\ Len(S.order) + Len(S.unvisited) = Len(nodes)
         /\ Len(S.order) <= Len(nodes)
         /\ \A v \in DOMAIN S.previous : WalkEnds(S.previous, v, Len(nodes))
         \* a predecessor is strictly earlier in the walk's direction
         /\ \A v \in DOMAIN S.previous :
               S.previous[v] # Null =>
                  /\ S.previous[v] \in S.visited
                  /\ S.previous[v] # v

\* what C26 says of a pass of the main loop
TerminationStep ==
  (pc = "searching" /\ pc' = "searching") =>
     \/ Len(search'.st.unvisited) = Len(search.st.unvisited) - 1
     \/ (search'.break /\ ~search.break)

\* C26: Termination.  Every pass of the main loop of findShortestPath
\* removes one node from the unvisited set or leaves the loop, so there are
\* at most |nodes| passes; and in every state of a search the predecessor
\* links lead from every node to a node without predecessor in at most
\* |nodes| steps, also with edges of weight zero, so the backward walk from
\* endId ends.
C26_Termination ==
  []TerminationState /\ [][TerminationStep]_vars

\* a search has returned a path of three or more nodes whose predecessor
\* links include one along an edge of weight zero
C26_Witness ==
  /\ pc = "returned"
  /\ search.active
  /\ route.found
  /\ Len(route.path) >= 3
  /\ \E i \in 2..Len(route.path) :
        search.st.distances[route.path[i]]
          = search.st.distances[route.path[i - 1]]

\* C27: On the seed network, with no dynamic node, findMultipleRoutes
\* returns exactly one route for every ordered pair of different seed nodes
\* that a path connects and no route for every pair that none connects.
C27_SeedOneRoute ==
  (/\ Returned("findMultipleRoutes")
   /\ adds = 0
   /\ call.startId \in SeedIds /\ call.endId \in SeedIds
   /\ call.startId # call.endId)
  => Len(routes) = (IF Reachable(call.startId, call.endId) THEN 1 ELSE 0)

\* the calculator has returned its one route between the two ends of the
\* longest chain of the seed network
C27_Witness ==
  /\ Returned("findMultipleRoutes")
  /\ adds = 0
  /\ call.startId = "pune" /\ call.endId = "kolkata"
  /\ Len(routes) = 1
  /\ Len(routes[1].path) = 12

\* the mode a card's name stands for
LabelMode(name) ==
  CASE name = "Fastest Route" -> "time"
    [] name = "Shortest Route" -> "distance"
    [] name = "Economic Route" -> "cost"
    [] OTHER -> Null

\* C28: The calculator's labels match the modes.  For every list that
\* findMultipleRoutes returns to the calculator (source and destination
\* differ), the route shown as 'Fastest Route' is the time-mode route, the
\* one shown as 'Shortest Route' the distance-mode route and the one shown
\* as 'Economic Route' the cost-mode route.
C28_Labels ==
  (Returned("findMultipleRoutes") /\ call.startId # call.endId) =>
     LET cards == RouteCards(routes)
     IN  \A i \in 1..Len(cards) :
            LabelMode(cards[i].name) # Null =>
               cards[i].route.path
                 = findShortestPath(nodes, edges, call.startId, call.endId,
                                    LabelMode(cards[i].name)).path

----------------------------------------------------------------------------
\* C29: reconnection of WebSocketService is bounded.  In every reachable
\* state reconnectAttempts is between 0 and 5; between two 'connect' events
\* at most 5 reconnect timers are scheduled; a timer that is scheduled has
\* the delay 1000 * 2^(attempt-1) ms; at most one reconnect timer is pending
\* at any time; and a 'connect' event resets the counter to 0.
ConnectEvent ==
  \E s \in DOMAIN ws.sockets :
    ws.sockets[s] = "connecting" /\ ws'.sockets[s] = "connected"

C29_BoundedReconnect ==
  [][/\ ws'.reconnectAttempts \in 0..5
     /\ ws'.scheduled <= 5
     /\ ws'.timers > ws.timers =>
          ws'.delay = 1000 * 2 ^ (ws'.reconnectAttempts - 1)
     /\ ws'.timers <= 1
     /\ ConnectEvent => ws'.reconnectAttempts = 0]_vars

\* C30: an explicit disconnect is final.  From a call of disconnect() until
\* the application calls connect() again, no socket is created: no
\* reconnect timer runs connect(), whatever the order of the 'disconnect'
\* and 'connect_error' events and of the timers that were pending.
C30_DisconnectFinal ==
  [][(ws.closedByApp /\ ws'.closedByApp) =>
       Len(ws'.sockets) = Len(ws.sockets)]_vars

====
